---- MODULE Spec2Model ----
(***************************************************************************)
(* Model of the Processor component (src/components/Processor.tsx): the    *)
(* React state of the component, the user's handlers, and the steps of the *)
(* asynchronous process() callback between its awaits.                     *)
(*                                                                         *)
(* A React state update and the re-render that follows it are one step:    *)
(* the handlers run in discrete DOM events, whose updates React flushes    *)
(* before the next event, and the continuation of an await runs to the     *)
(* next await without interruption.                                        *)
(*                                                                         *)
(* Text is a sequence of string pieces, so that "a" + b is <<"a">> \o b    *)
(* and a log line is the sequence of its characters.                       *)
(***************************************************************************)
EXTENDS Naturals, Sequences, FiniteSets, TLC

\* Number of distinct files the user can pick or drop.
NumFiles == 2

Files == { <<"file", n>> : n \in 1..NumFiles }

\* null of `File | null` and of `string | null`.
NULL == << >>

\* The keys of the style catalog.
STYLES == { "cinematic", "action", "aesthetic", "realistic" }

\* Errors an engine call can reject with: one with a message, one without.
Errors == { [message |-> << >>], [message |-> <<"boom">>] }

\* Lines the engine can log.
LogMessages ==
  { <<"f","r","a","m","e","=","1">>,
    <<" ","f","r","a","m","e","=">>,
    <<"F","r","a","m","e","=","1">>,
    <<"f","r","a","m","e"," ","=">> }

VARIABLES
  file,          \* useState<File | null>
  inputUrl,      \* useState<string | null>
  outputUrl,     \* useState<string | null>
  busy,          \* useState(false)
  progressText,  \* useState<string>("")
  style,         \* useState<StyleKey>("cinematic")
  slowMo,        \* useState<boolean>(true)
  runs,          \* the calls of process() that have not returned yet
  last,          \* history: the run that ended last, until the user acts
  snap,          \* history: the result state at the start of the run,
                 \*          until the user acts
  producedBy,    \* history: the run whose setOutputUrl set outputUrl
  lastLog        \* history: the log line the previous step delivered

vars == << file, inputUrl, outputUrl, busy, progressText, style, slowMo,
           runs, last, snap, producedBy, lastLog >>

\* URL.createObjectURL(blob): a URL that stands for the blob.
createObjectURL(blob) == <<"blob:", blob>>

\* buildArgs(style, slowMo) of ../lib/ffmpeg: one list per style key, and
\* for the key with the sub-option one list per value of it.
buildArgs(s, b) ==
  <<"buildArgs", s, IF s = "cinematic" /\ b THEN "slowMo" ELSE "plain">>

\* The literal argument lists of the catch block.
FallbackList(vf) ==
  <<"-i", "input.mp4", "-vf", vf, "-c:v", "mpeg4", "-q:v", "5", "-an",
    "-movflags", "+faststart", "output.mp4">>

FallbackArgs(s) ==
  IF s = "action" THEN
    FallbackList("format=yuv420p,eq=contrast=1.3:saturation=1.15:gamma=0.92,unsharp=5:5:1.1")
  ELSE IF s = "aesthetic" THEN
    FallbackList("format=yuv420p,hqdn3d=1.5:1.5:6:6,eq=contrast=1.05:brightness=0.03:saturation=0.96")
  ELSE IF s = "realistic" THEN
    FallbackList("format=yuv420p,hqdn3d=1.0:1.0:4:4,eq=contrast=1.06:saturation=1.02,unsharp=3:3:0.6,scale=3840:-2:flags=lanczos")
  ELSE
    FallbackList("format=yuv420p,eq=contrast=1.2:brightness=-0.03:saturation=1.08:gamma=0.95,curves=preset=medium_contrast,vignette=PI/6:0.5")

\* /frame=/ : the pattern of the log callback.
FramePattern == <<"f","r","a","m","e","=">>

\* Mutant: the pattern matches at the start of the line only (/^frame=/).
RegExpTest_Anchored(pat, m) ==
  /\ Len(pat) <= Len(m)
  /\ SubSeq(m, 1, Len(pat)) = pat

\* RegExp.test for a literal pattern: pat occurs somewhere in m.
RegExpTest(pat, m) ==
  \E k \in 1..Len(m) :
    /\ k + Len(pat) - 1 <= Len(m)
    /\ SubSeq(m, k, k + Len(pat) - 1) = pat

\* e?.message || "Unknown error"
ErrorMessage(e) == IF e.message = << >> THEN <<"Unknown error">> ELSE e.message

\* "Failed: " + (e?.message || "Unknown error")
FailedText(e) == <<"Failed: ">> \o ErrorMessage(e)

\* The blob of the engine's output.mp4: made from the input with the args.
NoBlob == [src |-> NULL, args |-> << >>]
Encode(input, args) == [src |-> input, args |-> args]

NoRun == [pc |-> "none", file |-> NULL, style |-> "", slowMo |-> FALSE,
          input |-> NULL, output |-> NoBlob, calls |-> << >>,
          err |-> [message |-> << >>]]

NoProducer == [file |-> NULL, style |-> ""]
NoSnap == << >>
NoMsg == << >>

\* The result state a run is compared against.
ResultState == << outputUrl, file, inputUrl, style, slowMo >>

Call(op, args) == [op |-> op, args |-> args, res |-> "pending"]

\* The run with a new engine call issued / with its pending call settled.
Issue(r, pc, args) ==
  [r EXCEPT !.pc = pc, !.calls = Append(@, Call(pc, args))]
Settle(r, res) ==
  [r EXCEPT !.calls = [@ EXCEPT ![Len(@)] = [@ EXCEPT !.res = res]]]

RemoveAt(s, i) == SubSeq(s, 1, i - 1) \o SubSeq(s, i + 1, Len(s))

\* Mutant: the button is not disabled while busy.
isReady_NoBusy == file # NULL

\* const isReady = useMemo(() => !!file && !busy, [file, busy])
isReady == file # NULL /\ ~busy

\* What the status line shows: it is rendered only while busy.
ShownText == IF busy THEN progressText ELSE << >>

\* download={`styled-${style}.mp4`}
DownloadName == <<"styled-", style, ".mp4">>

Init ==
  /\ file = NULL
  /\ inputUrl = NULL
  /\ outputUrl = NULL
  /\ busy = FALSE
  /\ progressText = << >>
  /\ style = "cinematic"
  /\ slowMo = TRUE
  /\ runs = << >>
  /\ last = NoRun
  /\ snap = NoSnap
  /\ producedBy = NoProducer
  /\ lastLog = NoMsg

\* The history variables after a user's action.
UserActed ==
  /\ last' = NoRun
  /\ snap' = NoSnap
  /\ lastLog' = NoMsg

\* onPickFile(f), reached from onFileInput and onDrop when a file is given.
onPickFile(f) ==
  /\ file' = f
  /\ inputUrl' = createObjectURL(f)
  /\ outputUrl' = NULL
  /\ producedBy' = NoProducer
  /\ UserActed
  /\ UNCHANGED << busy, progressText, style, slowMo, runs >>

\* The Clear button, rendered when inputUrl is set.
Clear ==
  /\ inputUrl # NULL
  /\ inputUrl' = NULL
  /\ file' = NULL
  /\ outputUrl' = NULL
  /\ producedBy' = NoProducer
  /\ UserActed
  /\ UNCHANGED << busy, progressText, style, slowMo, runs >>

\* A style radio button: onChange fires for a button that was not checked.
setStyle(s) ==
  /\ s # style
  /\ style' = s
  /\ UserActed
  /\ UNCHANGED << file, inputUrl, outputUrl, busy, progressText, slowMo,
                  runs, producedBy >>

\* The slow-motion checkbox, rendered when the style is cinematic.
setSlowMo ==
  /\ style = "cinematic"
  /\ slowMo' = ~slowMo
  /\ UserActed
  /\ UNCHANGED << file, inputUrl, outputUrl, busy, progressText, style,
                  runs, producedBy >>

\* The run process() starts: its closure holds file, style and slowMo of the
\* render it was created in, and its first engine call is getFFmpeg.
NewRun ==
  Issue([NoRun EXCEPT !.file = file, !.style = style, !.slowMo = slowMo],
        "getFFmpeg", << >>)

\* A click on the Process button (disabled unless isReady): process() up to
\* its first await.
process ==
  /\ isReady
  /\ file # NULL
  /\ busy' = TRUE
  /\ progressText' = <<"Loading ffmpeg...">>
  /\ runs' = Append(runs, NewRun)
  /\ snap' = ResultState
  /\ last' = NoRun
  /\ lastLog' = NoMsg
  /\ UNCHANGED << file, inputUrl, outputUrl, style, slowMo, producedBy >>

\* The log callback given to getFFmpeg.
onLog(m) ==
  IF RegExpTest(FramePattern, m)
    THEN progressText' = m
    ELSE progressText' = progressText

\* The engine logs a line while a call of a run is pending.
Log(m) ==
  /\ runs # << >>
  /\ onLog(m)
  /\ lastLog' = m
  /\ UNCHANGED << file, inputUrl, outputUrl, busy, style, slowMo, runs,
                  last, snap, producedBy >>

\* Mutant: the run returns without releasing the busy flag.
Finally_NoRelease(i, r) ==
  /\ busy' = busy
  /\ runs' = RemoveAt(runs, i)
  /\ last' = r
  /\ lastLog' = NoMsg

\* finally { setBusy(false) }: the run has returned.
Finally(i, r) ==
  /\ busy' = FALSE
  /\ runs' = RemoveAt(runs, i)
  /\ last' = r
  /\ lastLog' = NoMsg

\* Mutant: the failure path also drops the earlier output.
Failed_ClearsOutput(i, e) ==
  /\ progressText' = FailedText(e)
  /\ outputUrl' = NULL
  /\ busy' = FALSE
  /\ runs' = RemoveAt(runs, i)
  /\ last' = [Settle(runs[i], "err") EXCEPT !.pc = "failed", !.err = e]
  /\ lastLog' = NoMsg
  /\ UNCHANGED << file, inputUrl, style, slowMo, snap, producedBy >>

\* catch (e) { setProgressText("Failed: " + ...) } finally { ... }
Failed(i, e) ==
  /\ progressText' = FailedText(e)
  /\ Finally(i, [Settle(runs[i], "err") EXCEPT !.pc = "failed", !.err = e])
  /\ UNCHANGED << file, inputUrl, outputUrl, style, slowMo, snap, producedBy >>

\* A step of a run that neither ends it nor sets the output.
Continue(i, r, text) ==
  /\ progressText' = text
  /\ runs' = [runs EXCEPT ![i] = r]
  /\ lastLog' = NoMsg
  /\ UNCHANGED << file, inputUrl, outputUrl, busy, style, slowMo, last, snap,
                  producedBy >>

\* getFFmpeg resolves: "Preparing input...", writeInputFile is called.
GetFFmpegResolved(i) ==
  /\ runs[i].pc = "getFFmpeg"
  /\ Continue(i, Issue(Settle(runs[i], "ok"), "writeInputFile", << >>),
              <<"Preparing input...">>)

\* Mutant: the args are built from the style selected now, not from the
\* style of the run's closure.
PrimaryArgs_Current(r) == buildArgs(style, slowMo)

\* The args of the primary invocation.
PrimaryArgs(r) == buildArgs(r.style, r.slowMo)

\* writeInputFile resolves: input.mp4 holds the run's file; "Applying
\* style...", the primary exec is called.
WriteInputFileResolved(i) ==
  /\ runs[i].pc = "writeInputFile"
  /\ LET r == [Settle(runs[i], "ok") EXCEPT !.input = runs[i].file]
     IN  Continue(i, Issue(r, "exec", PrimaryArgs(r)), <<"Applying style...">>)

\* The engine's exec succeeds: output.mp4 is encoded from input.mp4.
Exported(r) ==
  [Settle(r, "ok") EXCEPT
     !.output = Encode(r.input, r.calls[Len(r.calls)].args)]

\* An exec (primary or fallback) resolves: "Exporting...", readOutputFile
\* is called.
ExecResolved(i) ==
  /\ runs[i].pc \in {"exec", "execFallback"}
  /\ Continue(i, Issue(Exported(runs[i]), "readOutputFile", << >>),
              <<"Exporting...">>)

\* The run after its primary exec rejected: the inner catch calls the
\* fallback exec of the run's style.
Fallback(r) ==
  [Issue(Settle(r, "err"), "exec", FallbackArgs(r.style))
     EXCEPT !.pc = "execFallback"]

\* Mutant: a rejected primary exec fails the run, no fallback is tried.
ExecRejected_NoFallback(i) ==
  /\ runs[i].pc = "exec"
  /\ \E e \in Errors : Failed(i, e)

\* The primary exec rejects.
ExecRejected(i) ==
  /\ runs[i].pc = "exec"
  /\ Continue(i, Fallback(runs[i]), progressText)

\* readOutputFile resolves: setOutputUrl, "Done", finally.
ReadOutputFileResolved(i) ==
  /\ runs[i].pc = "readOutputFile"
  /\ outputUrl' = createObjectURL(runs[i].output)
  /\ producedBy' = [file |-> runs[i].file, style |-> runs[i].style]
  /\ progressText' = <<"Done">>
  /\ Finally(i, [Settle(runs[i], "ok") EXCEPT !.pc = "done"])
  /\ UNCHANGED << file, inputUrl, style, slowMo, snap >>

\* The pending calls whose rejection reaches the outer catch.
Fatal == {"getFFmpeg", "writeInputFile", "execFallback", "readOutputFile"}

\* Mutant: the inner catch swallows the fallback's rejection and the run
\* goes on to read the output.
Rejected_Swallowed(i, e) ==
  /\ runs[i].pc \in Fatal
  /\ IF runs[i].pc = "execFallback"
       THEN Continue(i, Issue(Settle(runs[i], "err"), "readOutputFile", << >>),
                     <<"Exporting...">>)
       ELSE Failed(i, e)

\* getFFmpeg, writeInputFile, the fallback exec or readOutputFile rejects.
Rejected(i, e) ==
  /\ runs[i].pc \in Fatal
  /\ Failed(i, e)

\* The engine settles the pending call of some run.
EngineSettles ==
  \E i \in 1..Len(runs) :
    \/ GetFFmpegResolved(i)
    \/ WriteInputFileResolved(i)
    \/ ExecResolved(i)
    \/ ExecRejected(i)
    \/ ReadOutputFileResolved(i)
    \/ \E e \in Errors : Rejected(i, e)

Next ==
  \/ \E f \in Files : onPickFile(f)
  \/ Clear
  \/ \E s \in STYLES : setStyle(s)
  \/ setSlowMo
  \/ process
  \/ \E m \in LogMessages : Log(m)
  \/ \E i \in 1..Len(runs) : GetFFmpegResolved(i)
  \/ \E i \in 1..Len(runs) : WriteInputFileResolved(i)
  \/ \E i \in 1..Len(runs) : ExecResolved(i)
  \/ \E i \in 1..Len(runs) : ExecRejected(i)
  \/ \E i \in 1..Len(runs) : ReadOutputFileResolved(i)
  \/ \E i \in 1..Len(runs) : \E e \in Errors : Rejected(i, e)

Spec == Init /\ [][Next]_vars

\* Every engine call eventually resolves or rejects.
FairSpec == Spec /\ WF_vars(EngineSettles)

(***************************************************************************)
(* The claims.                                                             *)
(***************************************************************************)

\* The runs a claim about "a run" ranges over: those in flight and the one
\* that ended last.
AllRuns == { runs[i] : i \in 1..Len(runs) } \cup { last }

IsExec(c) == c.op = "exec"
IsWrite(c) == c.op = "writeInputFile"
IsRead(c) == c.op = "readOutputFile"

\* The exec calls of a run, in order.
Execs(r) == SelectSeq(r.calls, IsExec)

\* C1: at most one run of process() is in flight at any time, and while one
\* is, busy is set and the Process button is disabled.
C1_SingleRunInFlight ==
  /\ Len(runs) <= 1
  /\ runs # << >> => (busy /\ ~isReady)

\* C1 witness: a run is in flight on a file, and the user has since picked
\* another file, so a file is selected while the run is pending.
C1_Witness ==
  /\ Len(runs) = 1
  /\ file # NULL
  /\ runs[1].file # file

\* C2: a run makes at most two exec calls; it makes the second one exactly
\* when the first one failed, the second one is the fallback list, and a run
\* whose fallback failed has ended in failure.
C2_FallbackOnce ==
  \A r \in AllRuns :
    LET x == Execs(r) IN
      /\ Len(x) <= 2
      /\ Len(x) = 2 <=> (Len(x) >= 1 /\ x[1].res = "err")
      /\ Len(x) = 2 => x[2].args = FallbackArgs(r.style)
      /\ (Len(x) = 2 /\ x[2].res = "err") => r.pc = "failed"

\* C2 witness: a run has ended after its primary and its fallback exec both
\* failed.
C2_Witness ==
  /\ last.pc = "failed"
  /\ Len(Execs(last)) = 2
  /\ Execs(last)[2].res = "err"

\* C3 (as claimed): after a run has ended in failure, the status text shown
\* to the user is the "Failed: ..." message.
C3_FailureShown ==
  last.pc = "failed" => ShownText = FailedText(last.err)

\* C4: whenever busy is set it is eventually reset, and once a run has ended
\* a new run can be started whenever a file is selected.
C4_BusyReleased ==
  /\ busy ~> ~busy
  /\ [](last.pc \in {"done", "failed"} => (~busy /\ (file # NULL => isReady)))

\* C4 witness: a run has ended in a failure of its last step, busy is reset
\* and a file is selected.
C4_Witness ==
  /\ last.pc = "failed"
  /\ last.calls[Len(last.calls)].op = "readOutputFile"
  /\ ~busy
  /\ file # NULL

\* C5: a run is started with the style and the slow-mo value selected at the
\* click, its primary exec gets buildArgs of those and its fallback exec the
\* fallback list of that style, whatever is selected afterwards.
C5_ArgsOfStartStyle ==
  [][ /\ Len(runs') > Len(runs) =>
           /\ runs'[Len(runs')].style = style
           /\ runs'[Len(runs')].slowMo = slowMo
      /\ \A r \in AllRuns' :
           LET x == Execs(r) IN
             /\ Len(x) >= 1 => x[1].args = buildArgs(r.style, r.slowMo)
             /\ Len(x) >= 2 => x[2].args = FallbackArgs(r.style) ]_vars

\* C5 witness: a run has made its primary and its fallback exec while a
\* style other than the run's is selected.
C5_Witness ==
  \E i \in 1..Len(runs) :
    /\ Len(Execs(runs[i])) = 2
    /\ runs[i].style # style
    /\ runs[i].slowMo # slowMo

\* C6: in every run the input is written at most once, every exec comes
\* after the one successful write, the output is read at most once and only
\* after an exec that succeeded, and a run whose two execs failed has read
\* nothing and has left outputUrl as it was.
C6_OneInOneOut ==
  \A r \in AllRuns :
    LET c == r.calls
        n == Len(c)
    IN  /\ Len(SelectSeq(c, IsWrite)) <= 1
        /\ Len(SelectSeq(c, IsRead)) <= 1
        /\ \A k \in 1..n :
             IsExec(c[k]) => \E j \in 1..(k - 1) : IsWrite(c[j]) /\ c[j].res = "ok"
        /\ \A k \in 1..n :
             IsRead(c[k]) => \E j \in 1..(k - 1) : IsExec(c[j]) /\ c[j].res = "ok"
        /\ (Len(Execs(r)) = 2 /\ Execs(r)[2].res = "err") =>
             /\ SelectSeq(c, IsRead) = << >>
             /\ (r = last /\ snap # NoSnap) => outputUrl = snap[1]

\* C6 witness: a run has ended whose output was read after the fallback
\* exec succeeded.
C6_Witness ==
  /\ last.pc = "done"
  /\ Len(Execs(last)) = 2
  /\ outputUrl = createObjectURL(Encode(last.file, FallbackArgs(last.style)))

\* The log lines of LogMessages that contain "frame=".
C7_LinesWithFrame ==
  { <<"f","r","a","m","e","=","1">>, <<" ","f","r","a","m","e","=">> }

\* C7: a step that delivers a log line replaces the status text by the line
\* when the line contains "frame=", leaves it alone otherwise, and changes
\* nothing else of the component's state or of the runs.
C7_LogScrape ==
  [][ (lastLog' # NoMsg /\ lastLog' # lastLog) =>
        /\ progressText' = IF lastLog' \in C7_LinesWithFrame
                             THEN lastLog' ELSE progressText
        /\ UNCHANGED << file, inputUrl, outputUrl, busy, style, slowMo, runs >>
    ]_vars

\* C7 witness: a line with "frame=" inside it was delivered and is the
\* status text.
C7_Witness ==
  /\ lastLog = <<" ","f","r","a","m","e","=">>
  /\ progressText = lastLog

\* C8 (as claimed): whenever outputUrl is set, a file is selected and the
\* output is the result of a run started on that file.
C8_OutputOfCurrentFile ==
  outputUrl # NULL => (file # NULL /\ producedBy.file = file)

\* C9 (as claimed): whenever outputUrl is set, the download name carries the
\* style of the run that produced the output.
C9_DownloadNamesStyle ==
  outputUrl # NULL => DownloadName = <<"styled-", producedBy.style, ".mp4">>

\* C10: after a run has ended in failure with no user action since its
\* start, outputUrl, file, inputUrl, style and slowMo are what they were at
\* its start; busy is reset and the status text is the failure message.
C10_FailedRunKeepsResult ==
  (last.pc = "failed" /\ snap # NoSnap) =>
    /\ ResultState = snap
    /\ ~busy
    /\ progressText = FailedText(last.err)

\* C10 witness: a run has failed with no user action since its start while
\* the output of an earlier run is still set.
C10_Witness ==
  /\ last.pc = "failed"
  /\ snap # NoSnap
  /\ outputUrl # NULL

====
